---- MODULE Spec2Model ----
(***************************************************************************)
(* A model of the OpenClaw gateway client (src/gateway/client.py), its     *)
(* response decoder (src/gateway/response_parser.py), the session manager  *)
(* (src/session/manager.py) and the message handler (src/main.py).         *)
(*                                                                         *)
(* Spec and LiveSpec follow one call of OpenClawClient.send_message;       *)
(* StoreSpec drives the public methods of one SessionManager; BridgeSpec   *)
(* runs concurrent invocations of ClawdbotBridge.handle_message against    *)
(* the manager they share.                                                 *)
(*                                                                         *)
(* One behaviour of Spec is one call of send_message: validation,          *)
(* the POST, the branch on the HTTP status and content type, and the       *)
(* incremental framing and aggregation of the SSE stream, with the gateway *)
(* writing lines and the network delivering them in chunks cut anywhere.   *)
(*                                                                         *)
(* Text is a sequence of one-character strings.  The response body is a    *)
(* sequence of wire tokens: the newline, lexemes such as the `data: `      *)
(* prefix, and the single characters of the texts the events carry.        *)
(***************************************************************************)
EXTENDS Integers, Sequences, FiniteSets, TLC

VARIABLES
    pc,                   \* where the call is: start, posting, reading, body,
                          \*   body_mistyped, errtext, done
    message,              \* send_message's argument `message`
    session_key,          \* send_message's argument `session_key`
    requests,             \* the POSTs issued so far (session.post calls)
    status,               \* response.status, 0 while there is no response
    wire,                 \* bytes the gateway wrote that the client has not read
    written,              \* how many lines the gateway wrote so far
    closed,               \* the gateway left its last line without a newline
    buffer,               \* _handle_sse_response's local `buffer`
    accumulated_text,     \* _handle_sse_response's local `accumulated_text`
    final_response_text,  \* _handle_sse_response's local `final_response_text`
    event_count,          \* _handle_sse_response's local `event_count`
    result,               \* what send_message returned
    outcome,              \* history: which return statement ended the call
    received,             \* history: every byte read so far, chunk after chunk
    decoded,              \* history: the lines handed to json.loads, in order
    events,               \* history: the events parse_sse_event returned, in order
    sentinel_seen,        \* history: a line equal to `data: [DONE]` was read
    body,                 \* history: the non-streaming body response.json() read
    sessions,             \* SessionManager._sessions: session id -> Session
    last_op,              \* history: the manager method called last and its return
    tasks,                \* the running handle_message invocations
    expected,             \* history: each id's entry as its own operations made it
    share_with_webui,     \* ClawdbotBridge.share_with_webui, read from the config
    agent_id              \* ClawdbotBridge.agent_id, read from the config

callVars == << pc, message, session_key, requests, status, wire, written, closed, buffer,
               accumulated_text, final_response_text, event_count, result, outcome,
               received, decoded, events, sentinel_seen, body >>

bridgeVars == << sessions, last_op, tasks, expected, share_with_webui, agent_id >>

vars == << pc, message, session_key, requests, status, wire, written, closed, buffer,
           accumulated_text, final_response_text, event_count, result, outcome,
           received, decoded, events, sentinel_seen, body, sessions, last_op, tasks,
           expected, share_with_webui, agent_id >>

-----------------------------------------------------------------------------
(* Bounds of the model. *)

\* The gateway writes at most this many lines into one response body.
MaxLines == 2

\* How many handle_message invocations run concurrently.
MaxTasks == 2

-----------------------------------------------------------------------------
(* Python values. *)

\* Python's None, where a text is expected.
None == << "None" >>

\* Python truthiness of an optional text: None and "" are falsy.
Truthy(t) == t # None /\ t # << >>

\* A JSON value as json.loads returns it: jt is the Python type.
JStr(s) == [jt |-> "str", s |-> s, f |-> << >>, l |-> << >>]
JObj(f) == [jt |-> "dict", s |-> << >>, f |-> f, l |-> << >>]
JList(l) == [jt |-> "list", s |-> << >>, f |-> << >>, l |-> l]
JInt == [jt |-> "int", s |-> << >>, f |-> << >>, l |-> << >>]
JNone == [jt |-> "NoneType", s |-> << >>, f |-> << >>, l |-> << >>]

\* dict.get(key, default)
Get(d, key, default) == IF key \in DOMAIN d.f THEN d.f[key] ELSE default

\* value == "literal", for a value of any JSON type
EqStr(v, lit) == v.jt = "str" /\ v.s = << lit >>

\* The optional text a JSON value gives: a str as it is, None for None.
TextOf(v) == IF v.jt = "str" THEN v.s ELSE None

\* Python truthiness of a JSON value.
JTruthy(v) ==
    CASE v.jt = "str" -> v.s # << >>
      [] v.jt = "dict" -> DOMAIN v.f # {}
      [] v.jt = "list" -> v.l # << >>
      [] v.jt = "int" -> TRUE
      [] OTHER -> FALSE

\* "\n".join(texts) for a list of texts; LF is the newline character of a text.
LF == "\\n"
RECURSIVE JoinLines(_)
JoinLines(texts) ==
    IF Len(texts) = 0 THEN << >>
    ELSE IF Len(texts) = 1 THEN texts[1]
    ELSE texts[1] \o << LF >> \o JoinLines(Tail(texts))

-----------------------------------------------------------------------------
(* ResponseParser: src/gateway/response_parser.py *)

\* One element of a content list: the text it contributes, None when it gives none.
ContentItemText(content_item) ==
    IF content_item.jt = "str" THEN content_item.s
    ELSE IF content_item.jt = "dict" /\ "text" \in DOMAIN content_item.f
              /\ JTruthy(content_item.f["text"])
         THEN TextOf(content_item.f["text"])
    ELSE None

RECURSIVE ContentTexts(_)
ContentTexts(items) ==
    IF Len(items) = 0 THEN << >>
    ELSE LET t == ContentItemText(Head(items))
             rest == ContentTexts(Tail(items))
         IN IF Head(items).jt = "str" \/ t # None THEN << t >> \o rest ELSE rest

\* ResponseParser._extract_text_from_content
ExtractTextFromContent(content) ==
    IF content.jt = "str" THEN content.s
    ELSE IF content.jt # "list" THEN None
    ELSE LET texts == ContentTexts(content.l)
         IN IF texts # << >> THEN JoinLines(texts) ELSE None

\* The loop over the keys text, content, message at the end of
\* _extract_text_from_item: the first key whose value gives a text.
RECURSIVE ProbeKeys(_, _)
ProbeKeys(item, keys) ==
    IF Len(keys) = 0 THEN None
    ELSE LET key == Head(keys)
             value == Get(item, key, JNone)
             viaList == ExtractTextFromContent(value)
         IN IF key \in DOMAIN item.f /\ value.jt = "str" /\ value.s # << >>
              THEN value.s
            ELSE IF key \in DOMAIN item.f /\ value.jt = "list" /\ Truthy(viaList)
              THEN viaList
            ELSE ProbeKeys(item, Tail(keys))

\* ResponseParser._extract_text_from_item
ExtractTextFromItem(item) ==
    IF item.jt = "str" THEN item.s
    ELSE IF item.jt # "dict" THEN None
    ELSE IF EqStr(Get(item, "type", JStr(<< >>)), "text") /\ "content" \in DOMAIN item.f
         THEN TextOf(item.f["content"])
    ELSE IF EqStr(Get(item, "type", JStr(<< >>)), "message") /\ "content" \in DOMAIN item.f
         THEN ExtractTextFromContent(item.f["content"])
    ELSE ProbeKeys(item, << "text", "content", "message" >>)

RECURSIVE ItemTexts(_)
ItemTexts(output) ==
    IF Len(output) = 0 THEN << >>
    ELSE LET t == ExtractTextFromItem(Head(output))
             rest == ItemTexts(Tail(output))
         IN IF Truthy(t) THEN << t >> \o rest ELSE rest

\* ResponseParser.extract_text_from_output
ExtractTextFromOutputFirstOnly(output) ==
    IF output.jt # "list" \/ output.l = << >> THEN None
    ELSE LET texts == ItemTexts(output.l)
         IN IF texts # << >> THEN texts[1] ELSE None
ExtractTextFromOutput(output) ==
    IF output.jt # "list" \/ output.l = << >> THEN None
    ELSE LET texts == ItemTexts(output.l)
         IN IF texts # << >> THEN JoinLines(texts) ELSE None

\* The event kinds parse_sse_event tells apart.
TypeDelta == "response.output_text.delta"
TypeDone == "response.output_text.done"
TypeCompleted == "response.completed"
TypeFailed == "response.failed"

\* The type parse_sse_event reports: data.get("type", "") when it is a str.
EventType(data) ==
    LET t == Get(data, "type", JStr(<< >>))
    IN IF t.jt = "str" /\ Len(t.s) = 1 THEN t.s[1] ELSE ""

\* ResponseParser.parse_sse_event, for data a dict.
ParseSseEvent(data) ==
    LET event_type == EventType(data)
        base == [type |-> event_type, text |-> None, is_done |-> FALSE,
                 is_error |-> FALSE, error_message |-> None]
    IN CASE event_type = TypeDelta ->
              [base EXCEPT !.text = TextOf(Get(data, "delta", JStr(<< >>)))]
         [] event_type = TypeDone ->
              [base EXCEPT !.text = TextOf(Get(data, "text", JStr(<< >>))),
                           !.is_done = TRUE]
         [] event_type = TypeCompleted ->
              LET response_obj == Get(data, "response", JObj(<< >>))
              IN IF JTruthy(response_obj)
                 THEN [base EXCEPT !.is_done = TRUE,
                         !.text = ExtractTextFromOutput(Get(response_obj, "output", JList(<< >>)))]
                 ELSE [base EXCEPT !.is_done = TRUE]
         [] event_type = TypeFailed ->
              LET error_obj == Get(Get(data, "response", JObj(<< >>)), "error", JObj(<< >>))
              IN [base EXCEPT !.is_error = TRUE, !.is_done = TRUE,
                    !.error_message = TextOf(Get(error_obj, "message", JStr(<< "Unknown error" >>)))]
         [] OTHER -> base

-----------------------------------------------------------------------------
(* The wire: the bytes of a text/event-stream body. *)

NL == "NL"          \* the newline byte
CR == "CR"          \* a carriage return: whitespace that str.strip removes
EV == "event:"      \* the text `event:` opening an event-name line
DATA == "data: "    \* the six characters `data: `
DONE == "[DONE]"    \* the text `[DONE]`
CL == "CL"          \* the text closing the JSON object an opening lexeme began
NUM == "42"         \* a JSON number
U1 == "U1"          \* first byte of a two-byte UTF-8 character
U2 == "U2"          \* second byte of that character
UChar == "e'"       \* the character the two bytes encode

\* Lexemes opening a JSON object whose last field is a string left open.
OpenDelta == "{delta:"          \* {"type":"response.output_text.delta","delta":"
OpenDone == "{done:"            \* {"type":"response.output_text.done","text":"
OpenCompleted == "{completed:"  \* {"type":"response.completed","response":{"output":
                                \*   [{"type":"message","content":[{"type":"output_text","text":"
OpenFailed == "{failed:"        \* {"type":"response.failed","response":{"error":{"message":"
\* Lexemes opening a JSON object that has no string left open.
OpenCompletedBare == "{completed"   \* {"type":"response.completed"
OpenOther == "{created"             \* {"type":"response.created"

\* The characters a text is made of.
TextChars == { "a", "b", "x", "y", "m", UChar }

\* The lines the gateway writes (without their newline).
LineBlank == << CR >>
LineEvent == << EV >>
LineSentinel == << DATA, DONE >>
LineDelta == << DATA, OpenDelta, U1, U2, CL >>
LineDeltaTwo == << DATA, OpenDelta, "a", "a", CL >>
LineDone == << DATA, OpenDone, "b", CL >>
LineCompleted == << DATA, OpenCompleted, "x", CL >>
LineCompletedAgain == << DATA, OpenCompleted, "y", CL >>
LineCompletedBare == << DATA, OpenCompletedBare, CL >>
LineFailed == << DATA, OpenFailed, "m", CL >>
LineOther == << DATA, OpenOther, CL >>
LineMalformed == << DATA, OpenDelta, "b" >>
LineNumber == << DATA, NUM >>

Lines == { LineBlank, LineEvent, LineSentinel, LineDelta, LineDeltaTwo, LineDone, LineCompleted,
           LineCompletedAgain, LineCompletedBare, LineFailed, LineOther, LineMalformed, LineNumber }

\* The lines the gateway may leave without their newline as it ends the body.
LastLines == { LineDeltaTwo, LineCompleted, LineFailed }

\* bytes.decode("utf-8", errors="ignore") of one chunk: a two-byte character
\* whose bytes are both in the chunk is decoded, a byte of it alone is dropped.
RECURSIVE Decode(_)
Decode(chunk) ==
    IF Len(chunk) = 0 THEN << >>
    ELSE IF Head(chunk) = U1 /\ Len(chunk) >= 2 /\ chunk[2] = U2
         THEN << UChar >> \o Decode(Tail(Tail(chunk)))
    ELSE IF Head(chunk) \in { U1, U2 } THEN Decode(Tail(chunk))
    ELSE << Head(chunk) >> \o Decode(Tail(chunk))

\* str.strip(): whitespace removed at both ends.  A line that ends with the
\* `data: ` lexeme loses that lexeme's trailing blank and no longer starts
\* with `data: `; StartsWithData accounts for it.
Whitespace == { CR, " " }
RECURSIVE LStrip(_)
LStrip(s) == IF Len(s) > 0 /\ Head(s) \in Whitespace THEN LStrip(Tail(s)) ELSE s
RECURSIVE RStrip(_)
RStrip(s) ==
    IF Len(s) > 0 /\ s[Len(s)] \in Whitespace THEN RStrip(SubSeq(s, 1, Len(s) - 1)) ELSE s
Strip(s) == RStrip(LStrip(s))

\* line.startswith("data: "), for a stripped line
StartsWithData(line) == Len(line) >= 2 /\ Head(line) = DATA

\* "\n" in buffer, and the place of the first one
HasNewline(buf) == \E i \in 1..Len(buf) : buf[i] = NL
FirstNewline(buf) == CHOOSE i \in 1..Len(buf) : buf[i] = NL /\ \A j \in 1..(i - 1) : buf[j] # NL

\* The JSON object an opening lexeme and the text of its open string denote.
ObjectOf(open, text) ==
    CASE open = OpenDelta ->
           JObj("type" :> JStr(<< TypeDelta >>) @@ "delta" :> JStr(text))
      [] open = OpenDone ->
           JObj("type" :> JStr(<< TypeDone >>) @@ "text" :> JStr(text))
      [] open = OpenCompleted ->
           JObj("type" :> JStr(<< TypeCompleted >>)
                @@ "response" :> JObj("output" :> JList(<< JObj(
                      "type" :> JStr(<< "message" >>)
                      @@ "content" :> JList(<< JObj("type" :> JStr(<< "output_text" >>)
                                                   @@ "text" :> JStr(text)) >>)) >>)))
      [] open = OpenFailed ->
           JObj("type" :> JStr(<< TypeFailed >>)
                @@ "response" :> JObj("error" :> JObj("message" :> JStr(text))))
      [] open = OpenCompletedBare -> JObj("type" :> JStr(<< TypeCompleted >>))
      [] OTHER -> JObj("type" :> JStr(<< "response.created" >>))

\* json.loads(payload): ok is FALSE where json.JSONDecodeError is raised.
JsonLoads(payload) ==
    LET n == Len(payload)
        inner == SubSeq(payload, 2, n - 1)
    IN IF payload = << NUM >> THEN [ok |-> TRUE, val |-> JInt]
       ELSE IF n >= 2 /\ payload[n] = CL
               /\ payload[1] \in { OpenDelta, OpenDone, OpenCompleted, OpenFailed }
               /\ \A i \in 1..Len(inner) : inner[i] \in TextChars
            THEN [ok |-> TRUE, val |-> ObjectOf(payload[1], inner)]
       ELSE IF n = 2 /\ payload[2] = CL /\ payload[1] \in { OpenCompletedBare, OpenOther }
            THEN [ok |-> TRUE, val |-> ObjectOf(payload[1], << >>)]
       ELSE [ok |-> FALSE, val |-> JNone]

-----------------------------------------------------------------------------
(* OpenClawClient: src/gateway/client.py *)

\* The configured request timeout in seconds (the constructor's default).
Timeout == 300

\* The strings send_message returns (their fixed texts rendered in ASCII).
ValidationString == << "[x] message must not be empty" >>
TimeoutString == << "[t] request timed out (", ToString(Timeout), "s), retry later" >>
ConnectionString == << "[x] cannot connect to Gateway (", "gateway_url", ")" >>
ExceptionStringNone(e) == None
ExceptionString(e) == << "[x] error: ", e >>
FailureString(error_message) == << "[x] OpenClaw error: " >> \o error_message
NoTextString == << "[ok] command completed (no text output)" >>

\* str(e) of the AttributeError parse_sse_event raises on a value that is no dict.
NoGetAttribute == "'int' object has no attribute 'get'"

\* `accumulated_text += result["text"]`
OnDelta(accumulated, text) == accumulated \o text

\* `final_response_text = result["text"]`
OnCompletedKeepsFirst(final, text) == IF final = << >> THEN text ELSE final
OnCompleted(final, text) == text

\* `if len(result["text"]) >= len(accumulated_text): accumulated_text = result["text"]`
OnDoneStrictlyLonger(accumulated, text) == IF Len(text) > Len(accumulated) THEN text ELSE accumulated
OnDone(accumulated, text) == IF Len(text) >= Len(accumulated) THEN text ELSE accumulated

\* The `if result["text"]:` block: what one parsed event does to the two texts.
Aggregate(st, parsed) ==
    IF ~Truthy(parsed.text) THEN st
    ELSE CASE parsed.type = TypeDelta ->
                [st EXCEPT !.accumulated_text = OnDelta(@, parsed.text)]
           [] parsed.type = TypeCompleted ->
                [st EXCEPT !.final_response_text = OnCompleted(@, parsed.text)]
           [] parsed.type = TypeDone ->
                [st EXCEPT !.accumulated_text = OnDone(@, parsed.text)]
           [] OTHER -> st

\* `if result["is_error"]: return f"... {result['error_message']}"`
OnFailedGoesOn(st, parsed) == st
OnFailed(st, parsed) ==
    [st EXCEPT !.ctl = "return", !.value = FailureString(parsed.error_message)]

\* `except json.JSONDecodeError: continue`
OnJsonDecodeErrorRaises(st) ==
    [st EXCEPT !.ctl = "raise", !.value = ExceptionString("JSONDecodeError")]
OnJsonDecodeError(st) == st

\* `data.get("type", "")` of parse_sse_event on a value that is no dict raises
\* AttributeError, which no handler of _handle_sse_response catches.
OnAttributeErrorSkips(st) == st
OnAttributeError(st) ==
    [st EXCEPT !.ctl = "raise", !.value = ExceptionString(NoGetAttribute)]

\* The body of `if line.startswith("data: "):` for one line.
HandleData(st, line) ==
    LET loaded == JsonLoads(Tail(line))
        s1 == [st EXCEPT !.decoded = Append(@, line)]
    IN IF ~loaded.ok THEN OnJsonDecodeError(s1)
       ELSE LET s2 == [s1 EXCEPT !.event_count = @ + 1]
            IN IF loaded.val.jt # "dict"
               THEN OnAttributeError(s2)
               ELSE LET parsed == ParseSseEvent(loaded.val)
                        s3 == [s2 EXCEPT !.events = Append(@, parsed)]
                    IN IF parsed.is_error THEN OnFailed(s3, parsed)
                       ELSE Aggregate(s3, parsed)

\* `if line == "data: [DONE]": ... break`: the break leaves the `while` loop.
OnSentinel(st) == [st EXCEPT !.sentinel_seen = TRUE]

\* The loop `while "\n" in buffer:` of _handle_sse_response.
RECURSIVE DrainLines(_)
DrainLines(st) ==
    IF st.ctl # "run" \/ ~HasNewline(st.buffer) THEN st
    ELSE LET i == FirstNewline(st.buffer)
             line == Strip(SubSeq(st.buffer, 1, i - 1))
             s1 == [st EXCEPT !.buffer = SubSeq(@, i + 1, Len(@))]
         IN IF line = << >> \/ Head(line) = EV THEN DrainLines(s1)
            ELSE IF line = LineSentinel THEN OnSentinel(s1)
            ELSE IF StartsWithData(line) THEN DrainLines(HandleData(s1, line))
            ELSE DrainLines(s1)

\* One turn of `async for chunk in response.content.iter_any():`.
ProcessChunkDecodesCarry(st, chunk) ==
    LET drained == DrainLines([st EXCEPT !.buffer = @ \o Decode(chunk)])
        carry == Strip(drained.buffer)
    IN IF drained.ctl = "run" /\ StartsWithData(carry) /\ JsonLoads(Tail(carry)).ok
       THEN HandleData([drained EXCEPT !.buffer = << >>], carry)
       ELSE drained
ProcessChunk(st, chunk) ==
    DrainLines([st EXCEPT !.buffer = @ \o Decode(chunk)])

\* `result_text = final_response_text if final_response_text else accumulated_text`
ResultTextPrefersAccumulated(final, accumulated) ==
    IF Truthy(accumulated) THEN accumulated ELSE final
ResultText(final, accumulated) == IF Truthy(final) THEN final ELSE accumulated

\* What _handle_sse_response returns after the loop over the chunks.
StreamResult(final, accumulated) ==
    LET result_text == ResultText(final, accumulated)
    IN IF Truthy(result_text) THEN result_text ELSE NoTextString

\* The locals of _handle_sse_response as it is entered.
FreshLocals ==
    [buffer |-> << >>, accumulated_text |-> << >>, final_response_text |-> << >>,
     event_count |-> 0, decoded |-> << >>, events |-> << >>, sentinel_seen |-> FALSE,
     ctl |-> "run", value |-> << >>]

\* The locals as the state holds them.
Locals ==
    [buffer |-> buffer, accumulated_text |-> accumulated_text,
     final_response_text |-> final_response_text, event_count |-> event_count,
     decoded |-> decoded, events |-> events, sentinel_seen |-> sentinel_seen,
     ctl |-> "run", value |-> << >>]

\* The rest of the strings _handle_response and _handle_json_response return.
AuthString == << "[x] Gateway authentication failed, check the configuration" >>
NotFoundString == << "[x] Agent ", "agent_id", " does not exist or is not enabled" >>
CompletedString == << "[ok] command completed" >>
\* `error_text[:200]`
ErrorTextLimit == 200
ErrorString(code, error_text) ==
    << "[x] Gateway error (", ToString(code), "): " >>
        \o SubSeq(error_text, 1, IF Len(error_text) < ErrorTextLimit
                                 THEN Len(error_text) ELSE ErrorTextLimit)

\* No value returned yet.
NotReturned == << "(not returned)" >>

\* ResponseParser.parse_json_response, for result a dict.
ParseJsonResponseContentFirst(doc) ==
    IF "content" \in DOMAIN doc.f THEN TextOf(doc.f["content"])
    ELSE IF "output" \in DOMAIN doc.f /\ doc.f["output"].jt = "list"
      THEN ExtractTextFromOutput(doc.f["output"])
    ELSE None
ParseJsonResponse(doc) ==
    LET output == Get(doc, "output", JNone)
        fromOutput == ExtractTextFromOutput(output)
        choices == Get(doc, "choices", JList(<< >>))
        content ==
            IF choices.jt = "list" /\ choices.l # << >>
            THEN Get(Get(choices.l[1], "message", JObj(<< >>)), "content", JStr(<< >>))
            ELSE JStr(<< >>)
    IN IF "output" \in DOMAIN doc.f /\ output.jt = "list" /\ Truthy(fromOutput)
         THEN fromOutput
       ELSE IF "choices" \in DOMAIN doc.f /\ choices.l # << >> /\ JTruthy(content)
         THEN TextOf(content)
       ELSE IF "content" \in DOMAIN doc.f THEN TextOf(doc.f["content"])
       ELSE None

\* What _handle_json_response returns for a body that parsed to the dict doc.
JsonResult(doc) ==
    LET text == ParseJsonResponse(doc)
    IN IF Truthy(text) THEN text
       ELSE IF EqStr(Get(doc, "status", JNone), "completed") THEN CompletedString
       ELSE None

\* The non-streaming bodies the gateway answers with.
DocOutput ==
    JObj("output" :> JList(<< JObj("type" :> JStr(<< "message" >>)
        @@ "content" :> JList(<< JObj("type" :> JStr(<< "output_text" >>)
                                     @@ "text" :> JStr(<< "x" >>)) >>)) >>))
DocChoices ==
    JObj("choices" :> JList(<< JObj("message" :> JObj("content" :> JStr(<< "b" >>))) >>))
DocContent == JObj("content" :> JStr(<< "m" >>))
DocCompleted == JObj("status" :> JStr(<< "completed" >>))
DocEmpty == JObj(<< >>)
\* Bodies of more than one shape: all three fields; an empty `output` list
\* beside `content`; an `output` list without text beside `choices`; a first
\* choice without content beside `content`.
DocAll == JObj(DocOutput.f @@ DocChoices.f @@ DocContent.f)
DocEmptyOutput == JObj("output" :> JList(<< >>) @@ DocContent.f)
DocOutputNoText ==
    JObj("output" :> JList(<< JObj("type" :> JStr(<< "reasoning" >>)) >>) @@ DocChoices.f)
DocChoicesNoContent ==
    JObj("choices" :> JList(<< JObj("message" :> JObj(<< >>)) >>) @@ DocContent.f)
\* Bodies with an `output` list alone: a string item, a `text` item, a
\* `message` item and an item with a `text` key; an item whose `text` is empty
\* beside a `content`; items that give no text; an item without text before
\* items with text, the last with a list under `message`.
DocItems ==
    JObj("output" :> JList(<< JStr(<< "a" >>),
                              JObj("type" :> JStr(<< "text" >>) @@ "content" :> JStr(<< "b" >>)),
                              DocOutput.f["output"].l[1],
                              JObj("text" :> JStr(<< "y" >>)) >>))
DocItemsProbe ==
    JObj("output" :> JList(<< JObj("text" :> JStr(<< >>) @@ "content" :> JStr(<< "m" >>)) >>))
DocItemsNoText ==
    JObj("output" :> JList(<< JInt, JObj("type" :> JStr(<< "reasoning" >>)), JStr(<< >>) >>))
DocItemsSkip ==
    JObj("output" :> JList(<< JObj("type" :> JStr(<< "reasoning" >>)),
                              JStr(<< "a" >>),
                              JObj("message" :> JList(<< JStr(<< "b" >>),
                                                        JObj("text" :> JStr(<< "x" >>)) >>)) >>))
Docs == { "output", "choices", "content", "completed", "empty", "malformed",
          "all", "empty_output", "output_no_text", "choices_no_content",
          "items", "items_probe", "items_no_text", "items_skip" }
DocOf(name) ==
    CASE name = "output" -> DocOutput
      [] name = "choices" -> DocChoices
      [] name = "content" -> DocContent
      [] name = "completed" -> DocCompleted
      [] name = "all" -> DocAll
      [] name = "empty_output" -> DocEmptyOutput
      [] name = "output_no_text" -> DocOutputNoText
      [] name = "choices_no_content" -> DocChoicesNoContent
      [] name = "items" -> DocItems
      [] name = "items_probe" -> DocItemsProbe
      [] name = "items_no_text" -> DocItemsNoText
      [] name = "items_skip" -> DocItemsSkip
      [] OTHER -> DocEmpty

-----------------------------------------------------------------------------
(* The session manager: src/session/manager.py and src/session/utils.py. *)

MODE_CLAWDBOT == "clawdbot"
MODE_ASTRBOT == "astrbot"

\* The dataclass Session.
Session(mode, key, name) == [mode |-> mode, session_key |-> key, session_name |-> name]

\* `self._sessions = {}`
NoSessions == << >>

\* The dict without the key session_id: `del self._sessions[session_id]`.
Without(s, session_id) == [x \in DOMAIN s \ { session_id } |-> s[x]]

\* The dict after `self._sessions[session_id] = value`.
Assign(s, session_id, value) ==
    [x \in DOMAIN s \cup { session_id } |-> IF x = session_id THEN value ELSE s[x]]

\* The separator of the f-strings that build ids and keys.
Sep == "_"

\* extract_user_id, for an event that carries no raw_message: the sender of
\* the message object, then get_sender_id(), then the second part of the
\* event's own session id, then its last part.
ExtractUserId(event, group_id) ==
    IF event.user_id # << >> /\ event.user_id # group_id THEN event.user_id
    ELSE IF event.sender_id # << >> /\ event.sender_id # group_id THEN event.sender_id
    ELSE IF Len(event.session_parts) >= 3 /\ event.session_parts[2] # << >>
            /\ event.session_parts[2] # group_id
      THEN event.session_parts[2]
    ELSE IF event.session_parts # << >>
      THEN event.session_parts[Len(event.session_parts)]
    ELSE << "unknown" >>

\* SessionManager.get_session_id
GetSessionId(event) ==
    LET group_id == event.group_id
        user_id == ExtractUserId(event, group_id)
    IN IF group_id # << >>
       THEN event.platform \o << Sep >> \o user_id \o << Sep >> \o group_id
       ELSE event.platform \o << Sep >> \o user_id \o << Sep, "private" >>

\* SessionManager.get_gateway_session_key
GetGatewaySessionKey(event, session_name) ==
    LET group_id == event.group_id
        user_id == ExtractUserId(event, group_id)
    IN IF group_id # << >>
       THEN << "astrbot", Sep >> \o event.platform \o << Sep >> \o user_id
                \o << Sep >> \o group_id \o << Sep >> \o session_name
       ELSE << "astrbot", Sep >> \o event.platform \o << Sep >> \o user_id
                \o << Sep, "private", Sep >> \o session_name

\* SessionManager.get_shared_session_key
GetSharedSessionKey(agent, session_name) ==
    << "agent", ":" >> \o agent \o << ":" >> \o session_name

\* SessionManager.is_in_clawdbot_mode
IsInClawdbotMode(s, session_id) ==
    session_id \in DOMAIN s /\ s[session_id].mode = MODE_CLAWDBOT

\* SessionManager.enter_clawdbot_mode: the dict after the call.
EnterReplacesStore(s, session_id, key, session_name) ==
    session_id :> Session(MODE_CLAWDBOT, key, session_name)
EnterKeepsOldName(s, session_id, key, session_name) ==
    Assign(s, session_id,
           IF session_id \in DOMAIN s
           THEN Session(MODE_CLAWDBOT, key, s[session_id].session_name)
           ELSE Session(MODE_CLAWDBOT, key, session_name))
EnterOnlyWhenAbsent(s, session_id, key, session_name) ==
    IF session_id \in DOMAIN s THEN s
    ELSE Assign(s, session_id, Session(MODE_CLAWDBOT, key, session_name))
EnterClawdbotMode(s, session_id, key, session_name) ==
    Assign(s, session_id, Session(MODE_CLAWDBOT, key, session_name))

\* SessionManager.exit_clawdbot_mode: the dict after the call and the return.
ExitClearsStore(s, session_id) ==
    [sessions |-> NoSessions, ret |-> session_id \in DOMAIN s]
ExitMarksAstrbot(s, session_id) ==
    IF session_id \in DOMAIN s
    THEN [sessions |-> [s EXCEPT ![session_id].mode = MODE_ASTRBOT], ret |-> TRUE]
    ELSE [sessions |-> s, ret |-> FALSE]
ExitKeepsEntry(s, session_id) ==
    [sessions |-> s, ret |-> session_id \in DOMAIN s]
ExitClawdbotMode(s, session_id) ==
    IF session_id \in DOMAIN s
    THEN [sessions |-> Without(s, session_id), ret |-> TRUE]
    ELSE [sessions |-> s, ret |-> FALSE]

\* SessionManager.get_session_key
GetSessionKeyNone(s, session_id) == None
GetSessionKey(s, session_id) ==
    IF session_id \in DOMAIN s THEN s[session_id].session_key ELSE None

\* SessionManager.get_session_name
GetSessionName(s, session_id) ==
    IF session_id \in DOMAIN s THEN s[session_id].session_name ELSE None

\* SessionManager.set_session_name: the dict after the call and the return.
SetSessionNameCreates(s, session_id, session_name, event, agent, share) ==
    [sessions |-> Assign(s, session_id,
                         Session(MODE_CLAWDBOT,
                                 GetGatewaySessionKey(event, session_name), session_name)),
     ret |-> TRUE]
SetSessionName(s, session_id, session_name, event, agent, share) ==
    IF session_id \in DOMAIN s
    THEN LET new_session_key ==
                 IF share /\ agent # << >>
                 THEN GetSharedSessionKey(agent, session_name)
                 ELSE GetGatewaySessionKey(event, session_name)
         IN [sessions |-> [s EXCEPT ![session_id].session_name = session_name,
                                    ![session_id].session_key = new_session_key],
             ret |-> TRUE]
    ELSE [sessions |-> s, ret |-> FALSE]

\* SessionManager.clear_all: the dict after the call and the return.
ClearAllCountsCalls(s) == [sessions |-> NoSessions, ret |-> IF s = NoSessions THEN 0 ELSE 1]
ClearAll(s) == [sessions |-> NoSessions, ret |-> Cardinality(DOMAIN s)]

-----------------------------------------------------------------------------
(* The command handler, src/commands/handler.py.  A message is the sequence *)
(* of the words of its stripped text, and a command is matched as a whole   *)
(* word.                                                                    *)

\* The configured command lists (the head of each default list of main.py).
switch_commands == << "/clawd" >>
exit_commands == << "/exit" >>

\* `cmd.lstrip("/")`
LStripSlash(cmd) == IF cmd = "/clawd" THEN "clawd" ELSE cmd

\* The first words a message may start with to name a switch command.
SwitchWords ==
    { switch_commands[i] : i \in DOMAIN switch_commands }
        \cup { LStripSlash(switch_commands[i]) : i \in DOMAIN switch_commands }

\* CommandHandler._match_subcommand
MatchSubcommand(msg, keywords) ==
    Len(msg) = 2 /\ msg[1] \in SwitchWords /\ msg[2] \in keywords

\* CommandHandler.is_help_command
IsHelpCommand(msg) == Len(msg) = 2 /\ msg[1] \in SwitchWords /\ msg[2] \in { "help" }

IsStatusCommand(msg) == MatchSubcommand(msg, { "status" })
IsConfigCommand(msg) == MatchSubcommand(msg, { "config" })
IsInitCommand(msg) == MatchSubcommand(msg, { "init", "check" })

\* CommandHandler.is_exit_command
IsExitCommand(msg) ==
    Len(msg) >= 1 /\ msg[1] \in { exit_commands[i] : i \in DOMAIN exit_commands }

\* CommandHandler.is_session_command
IsSessionCommand(msg) == Len(msg) >= 2 /\ msg[1] \in SwitchWords /\ msg[2] = "session"

\* CommandHandler.extract_session_name
ExtractSessionName(msg) ==
    IF Len(msg) >= 3 /\ msg[1] \in SwitchWords /\ msg[2] = "session"
    THEN SubSeq(msg, 3, Len(msg)) ELSE None

\* CommandHandler.is_switch_command
IsSwitchCommand(msg) == Len(msg) >= 1 /\ msg[1] \in SwitchWords

\* CommandHandler.extract_message
ExtractMessage(msg) == IF Len(msg) >= 1 /\ msg[1] \in SwitchWords THEN Tail(msg) ELSE msg

\* CommandHandler.parse_command
ParseCommand(msg) ==
    IF IsHelpCommand(msg) THEN [cmd_type |-> "help", extracted |-> None]
    ELSE IF IsStatusCommand(msg) THEN [cmd_type |-> "status", extracted |-> None]
    ELSE IF IsConfigCommand(msg) THEN [cmd_type |-> "config", extracted |-> None]
    ELSE IF IsInitCommand(msg) THEN [cmd_type |-> "init", extracted |-> None]
    ELSE IF IsExitCommand(msg) THEN [cmd_type |-> "exit", extracted |-> None]
    ELSE IF IsSessionCommand(msg)
      THEN [cmd_type |-> "session", extracted |-> ExtractSessionName(msg)]
    ELSE IF IsSwitchCommand(msg)
      THEN [cmd_type |-> "switch",
            extracted |-> IF ExtractMessage(msg) # << >> THEN ExtractMessage(msg) ELSE None]
    ELSE [cmd_type |-> "none", extracted |-> None]

-----------------------------------------------------------------------------
(* The plugin, src/main.py. *)

\* The configuration the plugin was built with.
DEFAULT_SESSION == << "main" >>
DEFAULT_AGENT_ID == << "clawdbotbot" >>
admins_id == { << "1" >> }
admin_qq_id == << "1" >>
study_groups == { << "7" >> }

\* The texts handle_message replies with (rendered in ASCII).
HelpText == << "OpenClaw bridge usage" >>
ExitedString == << "[ok] left OpenClaw mode" >>
SwitchedString(name) == << "[i] switched to OpenClaw mode, session: " >> \o name
ConnectingString == << "[~] connecting to OpenClaw..." >>
CurrentSessionString(name) == << "[#] current session: " >> \o name
RenamedString(name) == << "[ok] switched to session: " >> \o name
RenameFailedString == << "[x] switching the session failed" >>
EnteredString(name) == << "[ok] entered OpenClaw mode, session: " >> \o name
FallbackString == << "[ok] OpenClaw handled it but returned no message" >>

\* ClawdbotBridge._is_admin
IsAdminAlways(event) == TRUE
IsAdmin(event) == event.sender_id \in admins_id \/ << "astrbot" >> \in admins_id

\* ClawdbotBridge._is_study_group
IsStudyGroup(event) == event.group_id # << >> /\ event.group_id \in study_groups

\* The key a switch or session command builds for the session named name.
KeyFor(share, event, name) ==
    IF share THEN GetSharedSessionKey(agent_id, name)
    ELSE GetGatewaySessionKey(event, name)

\* What handle_message does with nothing to do: no interception, no reply.
Ignored(s) ==
    [sessions |-> s, intercepted |-> FALSE, reply |-> None, send |-> FALSE,
     message |-> << >>, session_key |-> << >>]

\* handle_message from its entry to its first suspension point (lines
\* 132-256): the dict after it, whether the event was stopped, the reply it
\* produces, and whether it goes on to await send_message(message, session_key).
Route(s, share, event, raw_message) ==
    LET session_id == GetSessionId(event)
        is_in_clawdbot == IsInClawdbotMode(s, session_id)
        cmd == ParseCommand(raw_message)
        extracted_msg == cmd.extracted
        should_intercept ==
            cmd.cmd_type # "none" \/ is_in_clawdbot \/ IsHelpCommand(raw_message)
        stopped == [Ignored(s) EXCEPT !.intercepted = TRUE]
    IN IF ~IsAdmin(event) \/ ~should_intercept THEN Ignored(s)
       ELSE IF cmd.cmd_type = "help" THEN [stopped EXCEPT !.reply = HelpText]
       ELSE IF cmd.cmd_type = "exit"
         THEN [stopped EXCEPT !.sessions = ExitClawdbotMode(s, session_id).sessions,
                              !.reply = ExitedString]
       ELSE IF cmd.cmd_type = "switch"
         THEN LET key == KeyFor(share, event, DEFAULT_SESSION)
                  entered == [stopped EXCEPT
                      !.sessions = EnterClawdbotMode(s, session_id, key, DEFAULT_SESSION)]
              IN IF ~Truthy(extracted_msg)
                 THEN [entered EXCEPT !.reply = SwitchedString(DEFAULT_SESSION)]
                 ELSE [entered EXCEPT
                          !.reply = IF IsStudyGroup(event) THEN None ELSE ConnectingString,
                          !.send = TRUE, !.message = extracted_msg, !.session_key = key]
       ELSE IF cmd.cmd_type = "session"
         THEN IF ~Truthy(extracted_msg)
              THEN LET current_session == GetSessionName(s, session_id)
                   IN [stopped EXCEPT !.reply = CurrentSessionString(
                          IF Truthy(current_session) THEN current_session
                          ELSE << "default" >>)]
              ELSE IF is_in_clawdbot
                THEN LET done == SetSessionName(s, session_id, extracted_msg, event,
                                                agent_id, share)
                     IN [stopped EXCEPT !.sessions = done.sessions,
                                        !.reply = IF done.ret THEN RenamedString(extracted_msg)
                                                  ELSE RenameFailedString]
              ELSE [stopped EXCEPT
                       !.sessions = EnterClawdbotMode(s, session_id,
                                        KeyFor(share, event, extracted_msg), extracted_msg),
                       !.reply = EnteredString(extracted_msg)]
       ELSE IF is_in_clawdbot
         THEN LET key == GetSessionKey(s, session_id)
              IN IF ~Truthy(key) THEN stopped
                 ELSE IF raw_message = << >>
                   THEN [stopped EXCEPT !.reply = ValidationString]
                 ELSE [stopped EXCEPT !.send = TRUE, !.message = raw_message,
                                      !.session_key = key]
       ELSE stopped

\* What handle_message does to the dict once send_message has returned
\* response (lines 201-204 and 253-256): it only replies.
AfterSendExitsOnFailure(s, session_id, response) ==
    IF Truthy(response) /\ Head(response) = "[x] cannot connect to Gateway ("
    THEN Without(s, session_id) ELSE s
AfterSend(s, session_id, response) == s

-----------------------------------------------------------------------------
(* The call. *)

Messages == { << >>, << " " >>, << " ", CR >>, << " ", "h" >> }
SessionKeys == { "k1", "k2" }
Statuses == { 200, 401, 404, 500 }
ContentTypes == { "text/event-stream", "text/event-stream; charset=utf-8",
                  "application/json", "text/plain" }
ErrorTexts == { << >>, << "b" >> }

\* `content_type.startswith("text/event-stream")`
IsEventStream(content_type) ==
    content_type \in { "text/event-stream", "text/event-stream; charset=utf-8" }

\* `if not message or not message.strip():`
RejectsEmptyOnly(msg) == msg = << >>
Rejects(msg) == msg = << >> \/ Strip(msg) = << >>

\* The places where the call is suspended in network I/O under the request's
\* ClientTimeout(total=self.timeout): the POST, a read of the stream, the read
\* of a whole body.
TimerArmedUntilHeaders == { "posting" }
TimerArmed == { "posting", "reading", "body", "body_mistyped", "errtext" }

\* `except asyncio.TimeoutError:` of send_message: what the call returns.
OnTimeoutPartial(final, accumulated) ==
    IF Truthy(final) THEN final ELSE IF Truthy(accumulated) THEN accumulated ELSE TimeoutString
OnTimeout(final, accumulated) == TimeoutString

\* The events handle_message is called with: an administrator in a study
\* group and in private chat, a sender who is no administrator, and the
\* administrator in a group whose id is the text `private`.
EvGroup ==
    [platform |-> << "qq" >>, group_id |-> << "7" >>, user_id |-> << "1" >>,
     sender_id |-> << "1" >>, session_parts |-> << << "qq" >>, << "group" >>, << "7" >> >>]
EvPrivate == [EvGroup EXCEPT !.group_id = << >>,
                             !.session_parts = << << "qq" >>, << "friend" >>, << "1" >> >>]
EvStranger == [EvGroup EXCEPT !.user_id = << "2" >>, !.sender_id = << "2" >>]
EvGroupNamedPrivate ==
    [EvGroup EXCEPT !.group_id = << "private" >>,
                    !.session_parts = << << "qq" >>, << "group" >>, << "private" >> >>]
Events == { EvGroup, EvPrivate, EvStranger, EvGroupNamedPrivate }

\* The stripped texts of the messages, word by word.
HandlerMessages ==
    { << >>, << "hello" >>, << "/clawd" >>, << "/clawd", "hello" >>, << "/clawd", "session" >>,
      << "/clawd", "session", "work" >>, << "/exit" >>, << "/clawd", "help" >>,
      << "/clawd", "status" >> }

\* What an awaited send_message returns to handle_message.
Responses ==
    { << "x" >>, None, NoTextString, TimeoutString, ConnectionString,
      AuthString, ErrorString(500, << "b" >>), ExceptionString("JSONDecodeError"),
      FailureString(<< "m" >>) }

\* The arguments the manager's methods are called with.
SessionIds == { GetSessionId(EvGroup), GetSessionId(EvPrivate) }
GatewayKeys == { << "k1" >>, << "k2" >> }
SessionNames == { DEFAULT_SESSION, << "work" >> }

\* The handle_message invocations that may be running at once.
Tasks == 1..MaxTasks

\* A task that is not running, and one suspended in `await send_message`.
Idle == [pc |-> "idle", session_id |-> << >>, message |-> << >>, session_key |-> << >>]
Sending(session_id, msg, key) ==
    [pc |-> "sending", session_id |-> session_id, message |-> msg, session_key |-> key]

\* No entry for an id.
Absent == [mode |-> "absent", session_key |-> << >>, session_name |-> << >>]
Entry(s, session_id) == IF session_id \in DOMAIN s THEN s[session_id] ELSE Absent

\* The record of a call of a manager method: its arguments, what it returned
\* and the entry its id had before.
Op(name, session_id, key, session_name, ret, before) ==
    [name |-> name, id |-> session_id, key |-> key, session_name |-> session_name,
     ret |-> ret, before |-> before]
NoOp == Op("none", << >>, << >>, << >>, None, Absent)

\* A new plugin: an empty manager, no handler running.
InitBridge ==
    /\ sessions = NoSessions
    /\ last_op = NoOp
    /\ tasks = [t \in Tasks |-> Idle]
    /\ expected = NoSessions

\* send_message is entered: nothing sent, nothing read.
InitCall ==
    /\ pc = "start"
    /\ message \in Messages
    /\ session_key \in SessionKeys
    /\ requests = 0
    /\ status = 0
    /\ wire = << >>
    /\ written = 0
    /\ closed = FALSE
    /\ buffer = << >>
    /\ accumulated_text = << >>
    /\ final_response_text = << >>
    /\ event_count = 0
    /\ result = NotReturned
    /\ outcome = "none"
    /\ received = << >>
    /\ decoded = << >>
    /\ events = << >>
    /\ sentinel_seen = FALSE
    /\ body = "none"

Init ==
    /\ InitCall
    /\ InitBridge
    /\ share_with_webui = FALSE
    /\ agent_id = DEFAULT_AGENT_ID

\* The call returns value: the connection is released with what was in flight.
Return(value, how) ==
    /\ pc' = "done"
    /\ result' = value
    /\ outcome' = how
    /\ wire' = << >>

\* An exception raised at a suspension point unwinds _handle_sse_response: its
\* frame is gone when send_message's handler returns value.  The two texts it
\* had gathered stay in the state as the record of what was thrown away.
Unwind(value, how) ==
    /\ Return(value, how)
    /\ buffer' = << >>
    /\ event_count' = 0
    /\ received' = << >>
    /\ decoded' = << >>
    /\ events' = << >>
    /\ sentinel_seen' = FALSE
    /\ written' = 0
    /\ closed' = FALSE
    /\ UNCHANGED << message, session_key, requests, status,
                    accumulated_text, final_response_text >>
    /\ UNCHANGED << body, bridgeVars >>

\* send_message up to the POST: lines 77-98.
Validate ==
    /\ pc = "start"
    /\ IF Rejects(message)
       THEN /\ Return(ValidationString, "validation")
            /\ UNCHANGED requests
       ELSE /\ pc' = "posting"
            /\ requests' = requests + 1
            /\ UNCHANGED << result, outcome, wire >>
    /\ UNCHANGED << message, session_key, status, written, closed, buffer,
                    accumulated_text, final_response_text, event_count,
                    received, decoded, events, sentinel_seen >>
    /\ UNCHANGED << body, bridgeVars >>

\* _handle_response: the response's status line and headers have arrived.
ResponseArrives(code, content_type) ==
    /\ pc = "posting"
    /\ status' = code
    /\ CASE code = 200 /\ IsEventStream(content_type) ->
              pc' = "reading" /\ UNCHANGED << result, outcome, wire >>
         [] code = 200 /\ ~IsEventStream(content_type) ->
              /\ pc' = IF content_type = "application/json" THEN "body" ELSE "body_mistyped"
              /\ UNCHANGED << result, outcome, wire >>
         [] code = 401 -> Return(AuthString, "status")
         [] code = 404 -> Return(NotFoundString, "status")
         [] OTHER -> pc' = "errtext" /\ UNCHANGED << result, outcome, wire >>
    /\ UNCHANGED << message, session_key, requests, written, closed, buffer,
                    accumulated_text, final_response_text, event_count,
                    received, decoded, events, sentinel_seen >>
    /\ UNCHANGED << body, bridgeVars >>

\* The gateway writes one more line to the body; a line it leaves without its
\* newline is the last thing it writes.
GatewayWrites(line, terminated) ==
    /\ pc = "reading"
    /\ ~closed
    /\ written < MaxLines
    /\ terminated \/ line \in LastLines
    /\ wire' = wire \o line \o (IF terminated THEN << NL >> ELSE << >>)
    /\ written' = written + 1
    /\ closed' = ~terminated
    /\ UNCHANGED << pc, message, session_key, requests, status, buffer,
                    accumulated_text, final_response_text, event_count, result,
                    outcome, received, decoded, events, sentinel_seen >>
    /\ UNCHANGED << body, bridgeVars >>

\* One turn of the `async for`: the next k bytes arrive as one chunk.
Receive ==
    /\ pc = "reading"
    /\ \E k \in 1..Len(wire) :
       LET st == ProcessChunk(Locals, SubSeq(wire, 1, k))
       IN /\ buffer' = st.buffer
          /\ accumulated_text' = st.accumulated_text
          /\ final_response_text' = st.final_response_text
          /\ event_count' = st.event_count
          /\ decoded' = st.decoded
          /\ events' = st.events
          /\ sentinel_seen' = st.sentinel_seen
          /\ received' = received \o SubSeq(wire, 1, k)
          /\ CASE st.ctl = "return" -> Return(st.value, "failed")
               [] st.ctl = "raise" -> Return(st.value, "exception")
               [] OTHER -> /\ wire' = SubSeq(wire, k + 1, Len(wire))
                           /\ UNCHANGED << pc, result, outcome >>
    /\ UNCHANGED << message, session_key, requests, status, written, closed >>
    /\ UNCHANGED << body, bridgeVars >>

\* `if not chunk: continue`: an empty chunk changes nothing.
ReceiveEmpty ==
    /\ pc = "reading"
    /\ UNCHANGED vars

\* The gateway ends the body and iter_any is exhausted: lines 225-237.
StreamEnds ==
    /\ pc = "reading"
    /\ wire = << >>
    /\ Return(StreamResult(final_response_text, accumulated_text), "stream_end")
    /\ UNCHANGED << message, session_key, requests, status, written, closed, buffer,
                    accumulated_text, final_response_text, event_count,
                    received, decoded, events, sentinel_seen >>
    /\ UNCHANGED << body, bridgeVars >>

\* _handle_json_response: the whole body has arrived.  response.json() raises
\* aiohttp's ContentTypeError, a ClientError, for a body that is not declared
\* application/json, and json.JSONDecodeError for one that does not parse; both
\* are caught in send_message.
BodyArrives(name) ==
    /\ pc \in { "body", "body_mistyped" }
    /\ CASE pc = "body_mistyped" -> Return(ConnectionString, "content_type")
         [] name = "malformed" -> Return(ExceptionString("JSONDecodeError"), "json_exception")
         [] OTHER -> Return(JsonResult(DocOf(name)), "json")
    /\ UNCHANGED << message, session_key, requests, status, written, closed, buffer,
                    accumulated_text, final_response_text, event_count,
                    received, decoded, events, sentinel_seen >>
    /\ body' = name
    /\ UNCHANGED bridgeVars

\* `error_text = await response.text()` and the return after it.
ErrorTextArrives(error_text) ==
    /\ pc = "errtext"
    /\ Return(ErrorString(status, error_text), "status")
    /\ UNCHANGED << message, session_key, requests, status, written, closed, buffer,
                    accumulated_text, final_response_text, event_count,
                    received, decoded, events, sentinel_seen >>
    /\ UNCHANGED << body, bridgeVars >>

\* The request's total timeout elapses while the call is suspended.
TimeoutFires ==
    /\ pc \in TimerArmed
    /\ Unwind(OnTimeout(final_response_text, accumulated_text), "timeout")

\* aiohttp raises a ClientError while the call is suspended.
TransportFails ==
    /\ pc \in TimerArmed
    /\ Unwind(ConnectionString, "transport")

Next ==
    \/ Validate
    \/ \E code \in Statuses, content_type \in ContentTypes : ResponseArrives(code, content_type)
    \/ \E line \in Lines, terminated \in BOOLEAN : GatewayWrites(line, terminated)
    \/ Receive
    \/ ReceiveEmpty
    \/ StreamEnds
    \/ \E name \in Docs : BodyArrives(name)
    \/ \E error_text \in ErrorTexts : ErrorTextArrives(error_text)
    \/ TimeoutFires
    \/ TransportFails

Spec == Init /\ [][Next]_vars

\* The event loop runs send_message up to its first await, and its timer ends
\* a call that is still suspended when the request's total timeout elapses.
LiveSpec == Spec /\ WF_vars(Validate) /\ WF_vars(TimeoutFires)

-----------------------------------------------------------------------------
(* The session manager driven through its public methods. *)

\* No call of send_message is under way.
StoreInit ==
    /\ Init
    /\ message = << >>
    /\ session_key = "k1"

\* What a method of the manager leaves alone.
storeFrame == << callVars, tasks, expected, share_with_webui, agent_id >>

IsInClawdbotModeCalled(session_id) ==
    /\ last_op' = Op("is_in_clawdbot_mode", session_id, << >>, << >>,
                     IsInClawdbotMode(sessions, session_id), Entry(sessions, session_id))
    /\ UNCHANGED << sessions, storeFrame >>

EnterClawdbotModeCalled(session_id, key, session_name) ==
    /\ sessions' = EnterClawdbotMode(sessions, session_id, key, session_name)
    /\ last_op' = Op("enter_clawdbot_mode", session_id, key, session_name, None,
                     Entry(sessions, session_id))
    /\ UNCHANGED storeFrame

ExitClawdbotModeCalled(session_id) ==
    /\ sessions' = ExitClawdbotMode(sessions, session_id).sessions
    /\ last_op' = Op("exit_clawdbot_mode", session_id, << >>, << >>,
                     ExitClawdbotMode(sessions, session_id).ret,
                     Entry(sessions, session_id))
    /\ UNCHANGED storeFrame

GetSessionKeyCalled(session_id) ==
    /\ last_op' = Op("get_session_key", session_id, << >>, << >>,
                     GetSessionKey(sessions, session_id), Entry(sessions, session_id))
    /\ UNCHANGED << sessions, storeFrame >>

GetSessionNameCalled(session_id) ==
    /\ last_op' = Op("get_session_name", session_id, << >>, << >>,
                     GetSessionName(sessions, session_id), Entry(sessions, session_id))
    /\ UNCHANGED << sessions, storeFrame >>

SetSessionNameCalled(session_id, session_name, event, share) ==
    /\ sessions' = SetSessionName(sessions, session_id, session_name, event,
                                  agent_id, share).sessions
    /\ last_op' = Op("set_session_name", session_id, KeyFor(share, event, session_name),
                     session_name,
                     SetSessionName(sessions, session_id, session_name, event,
                                    agent_id, share).ret,
                     Entry(sessions, session_id))
    /\ UNCHANGED storeFrame

ClearAllCalled ==
    /\ sessions' = ClearAll(sessions).sessions
    /\ last_op' = Op("clear_all", << >>, << >>, << >>, ClearAll(sessions).ret, Absent)
    /\ UNCHANGED storeFrame

StoreNext ==
    \/ \E session_id \in SessionIds : IsInClawdbotModeCalled(session_id)
    \/ \E session_id \in SessionIds, key \in GatewayKeys, session_name \in SessionNames :
           EnterClawdbotModeCalled(session_id, key, session_name)
    \/ \E session_id \in SessionIds : ExitClawdbotModeCalled(session_id)
    \/ \E session_id \in SessionIds : GetSessionKeyCalled(session_id)
    \/ \E session_id \in SessionIds : GetSessionNameCalled(session_id)
    \/ \E session_id \in SessionIds, session_name \in SessionNames,
          event \in { EvGroup, EvPrivate }, share \in BOOLEAN :
           SetSessionNameCalled(session_id, session_name, event, share)
    \/ ClearAllCalled

StoreSpec == StoreInit /\ [][StoreNext]_vars

-----------------------------------------------------------------------------
(* Concurrent invocations of handle_message on one plugin. *)

\* The configurations the plugin may be built with: keys per user; keys shared
\* with the WebUI under the default agent id; keys shared under an empty one.
Configs ==
    { [share_with_webui |-> FALSE, agent_id |-> DEFAULT_AGENT_ID],
      [share_with_webui |-> TRUE, agent_id |-> DEFAULT_AGENT_ID],
      [share_with_webui |-> TRUE, agent_id |-> << >>] }

BridgeInit ==
    /\ InitCall
    /\ message = << >>
    /\ session_key = "k1"
    /\ InitBridge
    /\ \E config \in Configs :
          /\ share_with_webui = config.share_with_webui
          /\ agent_id = config.agent_id

\* The dict s with only the entry of session_id.
Only(s, session_id) == [x \in DOMAIN s \cap { session_id } |-> s[x]]

\* The dict s with the entry of session_id made what it is in the dict r.
WithEntryOf(s, session_id, r) ==
    IF session_id \in DOMAIN r THEN Assign(s, session_id, r[session_id])
    ELSE Without(s, session_id)

\* Task t runs handle_message(event) with the text raw_message up to its
\* first suspension point.  Whether it stopped the event is on record.
HandleMessage(t, event, raw_message) ==
    /\ tasks[t].pc = "idle"
    /\ \E session_id \in { GetSessionId(event) } :
       \E routed \in { Route(sessions, share_with_webui, event, raw_message) } :
       \E alone \in { Route(Only(expected, session_id), share_with_webui, event, raw_message) } :
          /\ sessions' = routed.sessions
          /\ expected' = WithEntryOf(expected, session_id, alone.sessions)
          /\ tasks' = IF routed.send
                      THEN [tasks EXCEPT ![t] = Sending(session_id, routed.message,
                                                        routed.session_key)]
                      ELSE tasks
          /\ last_op' = Op("handle_message", session_id, << >>, << >>, routed.intercepted, Absent)
    /\ UNCHANGED << callVars, share_with_webui, agent_id >>

\* The send_message task t awaits returns response; handle_message replies
\* with `response or "..."` and ends.  The call that returned last is on record.
SendReturns(t, response) ==
    /\ tasks[t].pc = "sending"
    /\ sessions' = AfterSend(sessions, tasks[t].session_id, response)
    /\ tasks' = [tasks EXCEPT ![t] = Idle]
    /\ last_op' = Op("send_message", tasks[t].session_id, << >>, << >>, None, Absent)
    /\ UNCHANGED << callVars, expected, share_with_webui, agent_id >>

\* ClawdbotBridge.terminate
Terminate ==
    /\ sessions' = ClearAll(sessions).sessions
    /\ expected' = NoSessions
    /\ UNCHANGED << callVars, last_op, tasks, share_with_webui, agent_id >>

BridgeNext ==
    \/ \E t \in Tasks, event \in Events, raw_message \in HandlerMessages :
           HandleMessage(t, event, raw_message)
    \/ \E t \in Tasks, response \in Responses : SendReturns(t, response)
    \/ Terminate

BridgeSpec == BridgeInit /\ [][BridgeNext]_vars

-----------------------------------------------------------------------------
(* Properties. *)

Last(s) == s[Len(s)]

\* The histories of the stream are those of the call: it is still reading, or
\* it returned from inside _handle_sse_response.
StreamHistoryKept == pc = "reading" \/ outcome \in { "stream_end", "failed", "exception" }

\* json.loads accepts the payload of a decoded line.
Loads(line) == JsonLoads(Tail(line)).ok
LoadsDict(line) == Loads(line) /\ JsonLoads(Tail(line)).val.jt = "dict"

IsCompleted(e) == e.type = TypeCompleted
IsCompletedWithText(e) == e.type = TypeCompleted /\ Truthy(e.text)

\* C1: once a complete line equal to `data: [DONE]` has been read, no later
\* line is decoded and none changes accumulatedText, finalText or the result:
\* no step of the call after the sentinel decodes a line, parses an event,
\* changes either text or ends the call from inside the loop.
C1_NothingAfterSentinel ==
    [][(sentinel_seen /\ outcome' \notin { "timeout", "transport" })
         => /\ decoded' = decoded
            /\ events' = events
            /\ accumulated_text' = accumulated_text
            /\ final_response_text' = final_response_text
            /\ outcome' \in { "none", "stream_end" }]_vars

\* C2: however the body is cut into chunks, the lines handed to the decoder
\* are those the uncut body gives: at every moment the decoded lines are the
\* ones one chunk holding everything received so far would have given.
C2_FramingIgnoresChunks ==
    StreamHistoryKept => decoded = ProcessChunk(FreshLocals, received).decoded

\* C3: a decoded response.failed event ends the call at once with the failure
\* string made of the event's message alone: it is the last line decoded and
\* the last event parsed, whatever was aggregated before it.
C3_FailedEndsCall ==
    /\ \A i \in 1..Len(events) :
          events[i].is_error
             => /\ i = Len(events)
                /\ pc = "done" /\ outcome = "failed"
                /\ result = << "[x] OpenClaw error: " >> \o events[i].error_message
    /\ \A i \in 1..Len(decoded) :
          (Loads(decoded[i]) /\ decoded[i][2] = OpenFailed)
             => /\ i = Len(decoded)
                /\ outcome = "failed"
                /\ result = << "[x] OpenClaw error: " >>
                               \o SubSeq(decoded[i], 3, Len(decoded[i]) - 1)
    /\ outcome = "failed" => events # << >> /\ Last(events).is_error

C3_Witness ==
    /\ outcome = "failed"
    /\ Len(events) >= 2
    /\ accumulated_text # << >>
    /\ result = << "[x] OpenClaw error: ", "m" >>

\* C4: at stream end the call returns finalText when it is not empty, else
\* accumulatedText, else the fixed no-text message; so the text of the last
\* Completed event that had text wins, and with no such event non-empty
\* accumulated text is returned.
C4_ResultAtStreamEnd ==
    outcome = "stream_end" =>
        LET withText == SelectSeq(events, IsCompletedWithText)
        IN /\ result = IF final_response_text # << >> THEN final_response_text
                       ELSE IF accumulated_text # << >> THEN accumulated_text
                       ELSE NoTextString
           /\ withText # << >> => result = Last(withText).text
           /\ (withText = << >> /\ accumulated_text # << >>) => result = accumulated_text
           /\ (withText = << >> /\ accumulated_text = << >>) => result = NoTextString

C4_Witness ==
    /\ outcome = "stream_end"
    /\ accumulated_text # << >>
    /\ final_response_text # << >>
    /\ result = final_response_text
    /\ result # accumulated_text

\* C5 as stated: finalText is the text of the most recently decoded Completed
\* event, empty when that event had no text.
C5_FinalIsLastCompleted ==
    StreamHistoryKept =>
        LET completed == SelectSeq(events, IsCompleted)
        IN completed # << >> =>
              final_response_text =
                 IF Truthy(Last(completed).text) THEN Last(completed).text ELSE << >>

\* C5 as amended: finalText is the text of the most recently decoded Completed
\* event that had a non-empty text, and empty when there was none; a Completed
\* event with an empty or absent text leaves finalText as it was.
C5_FinalIsLastCompletedWithText ==
    StreamHistoryKept =>
        LET withText == SelectSeq(events, IsCompletedWithText)
        IN final_response_text = IF withText = << >> THEN << >> ELSE Last(withText).text

C5_Witness ==
    /\ Len(events) = 2
    /\ IsCompletedWithText(events[1])
    /\ IsCompleted(events[2]) /\ ~Truthy(events[2].text)
    /\ final_response_text = << "x" >>
    /\ outcome = "stream_end"

\* accumulatedText after the first n events, by the rule of the specification:
\* a Delta appends its text, a Done replaces the text when it is at least as long.
RECURSIVE AccAfter(_, _)
AccAfter(evs, n) ==
    IF n = 0 THEN << >>
    ELSE LET before == AccAfter(evs, n - 1)
             e == evs[n]
             text == IF e.text = None THEN << >> ELSE e.text
         IN CASE e.type = TypeDelta -> before \o text
              [] e.type = TypeDone -> IF Len(text) >= Len(before) THEN text ELSE before
              [] OTHER -> before

\* C6: a Done event replaces accumulatedText exactly when its text is at least
\* as long, so accumulatedText is what the rule gives over the events so far,
\* and its length never decreases from one event to the next.
C6_DoneNeverShrinks ==
    StreamHistoryKept =>
        /\ accumulated_text = AccAfter(events, Len(events))
        /\ \A n \in 1..Len(events) :
              Len(AccAfter(events, n)) >= Len(AccAfter(events, n - 1))

C6_Witness ==
    /\ Len(events) = 2
    /\ events[1].type = TypeDelta /\ events[1].text = << "a", "a" >>
    /\ events[2].type = TypeDone /\ events[2].text = << "b" >>
    /\ accumulated_text = << "a", "a" >>

\* The events the decoded lines give, a malformed line giving none.
RECURSIVE EventsOf(_)
EventsOf(lines) ==
    IF Len(lines) = 0 THEN << >>
    ELSE IF LoadsDict(Head(lines))
         THEN << ParseSseEvent(JsonLoads(Tail(Head(lines))).val) >> \o EventsOf(Tail(lines))
    ELSE EventsOf(Tail(lines))

C8_TimeoutDiscardsPartial ==
    outcome = "timeout" =>
        result = << "[t] request timed out (", "300", "s), retry later" >>

C8_Witness ==
    /\ outcome = "timeout"
    /\ status = 200
    /\ accumulated_text # << >>
    /\ final_response_text # << >>

\* C9: every call eventually returns.
C9_CallReturns == <>(pc = "done")

C9_Witness ==
    /\ pc = "done"
    /\ outcome = "timeout"
    /\ status = 200
    /\ accumulated_text # << >>

\* C10: a message that is empty or all whitespace is answered with the
\* validation string and no request is ever issued, whatever the session key.
C10_BlankMessageRejected ==
    (\A i \in 1..Len(message) : message[i] \in { " ", CR })
        => /\ requests = 0
           /\ pc \in { "start", "done" }
           /\ pc = "done" => result = << "[x] message must not be empty" >>
                             /\ outcome = "validation"

C10_Witness ==
    /\ pc = "done"
    /\ message = << " ", CR >>
    /\ session_key = "k2"
    /\ requests = 0
    /\ result = ValidationString

\* The outcomes that are failures of the call, and how the strings returned
\* for failures begin.
FailureOutcomes ==
    { "timeout", "transport", "status", "failed", "exception", "json_exception",
      "content_type" }
FailurePrefixes ==
    { "[t] request timed out (", "[x] cannot connect to Gateway (",
      "[x] Gateway authentication failed, check the configuration", "[x] Agent ",
      "[x] Gateway error (", "[x] error: ", "[x] OpenClaw error: " }

\* C11: no failure leaves send_message as an exception: a call that ended
\* returned a value, every failure (timeout, transport, HTTP status, a
\* response.failed event, an exception raised while decoding) returned a
\* failure string, and a whole body that is not JSON returned the generic
\* error string, which is neither None nor a text of the gateway.
C11_FailureIsReturned ==
    /\ (pc = "done") = (outcome # "none")
    /\ pc = "done" => result # NotReturned
    /\ outcome \in FailureOutcomes => /\ result # None
                                      /\ Len(result) > 0
                                      /\ result[1] \in FailurePrefixes
    /\ outcome = "json_exception" => /\ body = "malformed"
                                     /\ result = << "[x] error: ", "JSONDecodeError" >>

C11_Witness ==
    /\ pc = "done"
    /\ status = 200
    /\ body = "malformed"
    /\ outcome = "json_exception"
    /\ result[1] = "[x] error: "

\* C12: the message returned names the class of the failure: the timeout
\* message only after the timeout, the connection message only after a
\* transport failure, the authentication message exactly for 401, the
\* not-found message exactly for 404, the status-code message for every other
\* status that is not 200.
C12_MessageNamesFailureClass ==
    /\ result = TimeoutString => outcome = "timeout"
    /\ result = ConnectionString => outcome = "transport"
    /\ (result = AuthString) = (pc = "done" /\ status = 401)
    /\ (result = NotFoundString) = (pc = "done" /\ status = 404)
    /\ (pc = "done" /\ outcome = "status" /\ status \notin { 401, 404 })
           => /\ status # 200
              /\ result[1] = "[x] Gateway error ("
              /\ result[2] = ToString(status)
    /\ (Len(result) > 0 /\ result[1] = "[x] Gateway error (")
           => outcome = "status" /\ status \notin { 200, 401, 404 }

\* The text the claimed rule of the non-streaming decode yields: the first
\* shape present decides.
FirstPresentShape(doc) ==
    IF "output" \in DOMAIN doc.f /\ doc.f["output"].jt = "list"
      THEN ExtractTextFromOutput(doc.f["output"])
    ELSE IF "choices" \in DOMAIN doc.f /\ doc.f["choices"].jt = "list"
            /\ doc.f["choices"].l # << >>
      THEN TextOf(Get(Get(doc.f["choices"].l[1], "message", JObj(<< >>)),
                      "content", JStr(<< >>)))
    ELSE IF "content" \in DOMAIN doc.f THEN TextOf(doc.f["content"])
    ELSE None

\* The same order, a shape deciding only when it yields a non-empty text.
FirstShapeWithText(doc) ==
    LET fromOutput ==
            IF "output" \in DOMAIN doc.f /\ doc.f["output"].jt = "list"
            THEN ExtractTextFromOutput(doc.f["output"]) ELSE None
        fromChoices ==
            IF "choices" \in DOMAIN doc.f /\ doc.f["choices"].jt = "list"
               /\ doc.f["choices"].l # << >>
            THEN TextOf(Get(Get(doc.f["choices"].l[1], "message", JObj(<< >>)),
                            "content", JStr(<< >>)))
            ELSE None
    IN IF Truthy(fromOutput) THEN fromOutput
       ELSE IF Truthy(fromChoices) THEN fromChoices
       ELSE IF "content" \in DOMAIN doc.f THEN TextOf(doc.f["content"])
       ELSE None

\* The bodies that parse to a dict.
DictDocs == Docs \ { "malformed" }

\* C13 as claimed: the first shape present in the body decides the text, also
\* when it yields none.
C13_FirstPresentShapeWins ==
    outcome = "json" =>
        LET text == FirstPresentShape(DocOf(body))
        IN /\ ParseJsonResponse(DocOf(body)) = text
           /\ IF Truthy(text) THEN result = text ELSE result \in { None, CompletedString }

\* C13: the decode tries output list, non-empty choices, content in this order
\* and the first that yields a non-empty text decides; `content`, tried last,
\* is returned as it is; a body with none of the three yields None.
C13_FirstShapeWithTextWins ==
    /\ \A name \in DictDocs : ParseJsonResponse(DocOf(name)) = FirstShapeWithText(DocOf(name))
    /\ ParseJsonResponse(DocEmpty) = None
    /\ outcome = "json" =>
           LET text == FirstShapeWithText(DocOf(body))
           IN IF Truthy(text) THEN result = text ELSE result \in { None, CompletedString }

C13_Witness ==
    /\ pc = "done"
    /\ outcome = "json"
    /\ body = "empty_output"
    /\ result = << "m" >>

-----------------------------------------------------------------------------
(* Properties of the session manager, under StoreSpec. *)

\* What the manager lets a caller see of one id.
Observations(s, session_id) ==
    << IsInClawdbotMode(s, session_id), GetSessionKey(s, session_id),
       GetSessionName(s, session_id) >>

\* The entries of all ids but session_id are in s2 what they are in s1.
SameElsewhere(s1, s2, session_id) ==
    /\ DOMAIN s2 \ { session_id } = DOMAIN s1 \ { session_id }
    /\ \A x \in DOMAIN s1 \ { session_id } : s2[x] = s1[x]

\* C14: a method called for the id a leaves what is seen of every other id b
\* unchanged (is_in_clawdbot_mode, get_session_key, get_session_name of b);
\* only clear_all touches other ids.
C14_SessionIsolation ==
    [][last_op'.name # "clear_all" =>
           \A b \in SessionIds \ { last_op'.id } :
               Observations(sessions', b) = Observations(sessions, b)]_vars

C14_Witness ==
    /\ last_op.name = "enter_clawdbot_mode"
    /\ last_op.id = GetSessionId(EvGroup)
    /\ last_op.before # Absent
    /\ GetSessionName(sessions, GetSessionId(EvPrivate)) = << "work" >>
    /\ GetSessionName(sessions, GetSessionId(EvGroup)) = << "main" >>

\* C15: exit_clawdbot_mode of an id without entry returns False and changes
\* nothing; of an id with an entry it returns True and removes that entry and
\* no other, after which the id is not in OpenClaw mode and has no key and no
\* name.
C15_ExitRemovesEntry ==
    [][last_op'.name = "exit_clawdbot_mode" =>
           IF last_op'.id \in DOMAIN sessions
           THEN /\ last_op'.ret = TRUE
                /\ DOMAIN sessions' = DOMAIN sessions \ { last_op'.id }
                /\ SameElsewhere(sessions, sessions', last_op'.id)
                /\ Observations(sessions', last_op'.id) = << FALSE, None, None >>
           ELSE /\ last_op'.ret = FALSE
                /\ sessions' = sessions]_vars

C15_Witness ==
    /\ last_op.name = "exit_clawdbot_mode"
    /\ last_op.ret = TRUE
    /\ last_op.before.session_name = << "work" >>
    /\ last_op.id \notin DOMAIN sessions
    /\ sessions # NoSessions

\* C16: clear_all returns the number of ids that had an entry when it was
\* called and leaves no entry, so no id is in OpenClaw mode and a clear_all
\* right after it returns 0.
C16_ClearAllCounts ==
    [][last_op'.name = "clear_all" =>
           /\ last_op'.ret = Cardinality(DOMAIN sessions)
           /\ sessions' = NoSessions
           /\ \A session_id \in SessionIds : ~IsInClawdbotMode(sessions', session_id)
           /\ last_op.name = "clear_all" => last_op'.ret = 0]_vars

C16_Witness ==
    /\ last_op.name = "clear_all"
    /\ last_op.ret = 2
    /\ sessions = NoSessions

\* C17: enter_clawdbot_mode(id, key, name) makes the entry of id the session
\* in OpenClaw mode with that key and that name, whatever the entry was, adds
\* no other entry and changes none, and calling it again with the same
\* arguments changes nothing.
C17_EnterReplacesEntry ==
    [][last_op'.name = "enter_clawdbot_mode" =>
           /\ sessions'[last_op'.id] =
                  [mode |-> "clawdbot", session_key |-> last_op'.key,
                   session_name |-> last_op'.session_name]
           /\ DOMAIN sessions' = DOMAIN sessions \cup { last_op'.id }
           /\ SameElsewhere(sessions, sessions', last_op'.id)
           /\ EnterClawdbotMode(sessions', last_op'.id, last_op'.key,
                                last_op'.session_name) = sessions']_vars

C17_Witness ==
    /\ last_op.name = "enter_clawdbot_mode"
    /\ last_op.before # Absent
    /\ last_op.before.session_name # last_op.session_name
    /\ last_op.before.session_key # last_op.key
    /\ sessions[last_op.id].session_name = last_op.session_name

\* C18: set_session_name of an id that is not in OpenClaw mode returns False
\* and changes nothing; of an id that is, it returns True, gives the entry the
\* new name and the key built from it, keeps its mode, and adds, removes and
\* changes no other entry.
C18_RenameOnlyExisting ==
    [][last_op'.name = "set_session_name" =>
           IF ~IsInClawdbotMode(sessions, last_op'.id)
           THEN /\ last_op'.ret = FALSE
                /\ sessions' = sessions
           ELSE /\ last_op'.ret = TRUE
                /\ DOMAIN sessions' = DOMAIN sessions
                /\ SameElsewhere(sessions, sessions', last_op'.id)
                /\ sessions'[last_op'.id] =
                       [mode |-> "clawdbot", session_key |-> last_op'.key,
                        session_name |-> last_op'.session_name]]_vars

C18_Witness ==
    /\ last_op.name = "set_session_name"
    /\ last_op.ret = TRUE
    /\ last_op.before.session_name # last_op.session_name
    /\ sessions[last_op.id].session_key = last_op.key
    /\ Cardinality(DOMAIN sessions) = 2

-----------------------------------------------------------------------------
(* Properties of the handlers, under BridgeSpec. *)

\* C19: the manager's methods run without suspension, so with handlers of
\* several session ids interleaved every entry is what the handlers of its own
\* id made it, in the order they ran: no update is lost or applied to another
\* id.
C19_NoLostUpdate ==
    /\ sessions = expected
    /\ \A t \in Tasks : tasks[t].pc \in { "idle", "sending" }

C19_Witness ==
    /\ \E t1, t2 \in Tasks :
          /\ tasks[t1].pc = "sending"
          /\ tasks[t2].pc = "sending"
          /\ tasks[t1].session_id # tasks[t2].session_id
          /\ GetSessionName(sessions, tasks[t1].session_id) = << "work" >>
          /\ GetSessionName(sessions, tasks[t2].session_id) = << "main" >>

\* C20: the return of a send_message call, whatever it returns, leaves the
\* manager's dict as it was; while the call is suspended only other handlers
\* change it.
C20_CallLeavesStore ==
    [][\A t \in Tasks : (tasks[t].pc = "sending" /\ tasks'[t].pc = "idle")
                            => sessions' = sessions]_vars

C20_Witness ==
    /\ last_op.name = "send_message"
    /\ last_op.id \in DOMAIN sessions
    /\ \E t \in Tasks : tasks[t].pc = "sending" /\ tasks[t].session_id # last_op.id

-----------------------------------------------------------------------------
(* Properties of the text extraction and of the stream's framing, under Spec. *)

\* The first of keys that item has, None when it has none of them.
RECURSIVE FirstPresentKey(_, _)
FirstPresentKey(item, keys) ==
    IF Len(keys) = 0 THEN "none"
    ELSE IF Head(keys) \in DOMAIN item.f THEN Head(keys)
    ELSE FirstPresentKey(item, Tail(keys))

\* The text a value found under a probed key gives: a string as it is, a list
\* by the rule for content lists.
ProbedText(value) ==
    IF value.jt = "str" THEN value.s
    ELSE IF value.jt = "list" THEN ExtractTextFromContent(value)
    ELSE None

\* The keys of item whose value gives a non-empty text, in probing order.
KeyGivesText(item, key) == key \in DOMAIN item.f /\ Truthy(ProbedText(item.f[key]))

\* The rules for one item that come before the probing of keys; "probe" when
\* none of them applies.
TypedItemText(item) ==
    IF item.jt = "str" THEN item.s
    ELSE IF item.jt # "dict" THEN None
    ELSE IF "type" \in DOMAIN item.f /\ item.f["type"] = JStr(<< "text" >>)
            /\ "content" \in DOMAIN item.f
      THEN TextOf(item.f["content"])
    ELSE IF "type" \in DOMAIN item.f /\ item.f["type"] = JStr(<< "message" >>)
            /\ "content" \in DOMAIN item.f
      THEN ExtractTextFromContent(item.f["content"])
    ELSE << "probe" >>

\* The text of one item as claimed: the probing takes the first key present.
ItemTextFirstPresent(item) ==
    IF TypedItemText(item) # << "probe" >> THEN TypedItemText(item)
    ELSE LET key == FirstPresentKey(item, << "text", "content", "message" >>)
         IN IF key = "none" THEN None ELSE ProbedText(item.f[key])

\* The text of one item, the probing taking the first key whose value gives a
\* non-empty text.
ItemTextFirstWithText(item) ==
    IF TypedItemText(item) # << "probe" >> THEN TypedItemText(item)
    ELSE IF KeyGivesText(item, "text") THEN ProbedText(item.f["text"])
    ELSE IF KeyGivesText(item, "content") THEN ProbedText(item.f["content"])
    ELSE IF KeyGivesText(item, "message") THEN ProbedText(item.f["message"])
    ELSE None

\* Texts joined with newline, built from the last one backwards.
RECURSIVE JoinedWithNewline(_)
JoinedWithNewline(texts) ==
    IF Len(texts) = 0 THEN << >>
    ELSE IF Len(texts) = 1 THEN texts[1]
    ELSE JoinedWithNewline(SubSeq(texts, 1, Len(texts) - 1)) \o << LF >> \o texts[Len(texts)]

\* The per-item texts of a list of items joined in item order, None when no
\* item yields a text.
OutputTextBy(ItemText(_), items) ==
    LET texts == SelectSeq([i \in 1..Len(items) |-> ItemText(items[i])], Truthy)
    IN IF texts = << >> THEN None ELSE JoinedWithNewline(texts)

\* The bodies that have an `output` list and neither `choices` nor `content`.
OutputDocs == { "output", "items", "items_probe", "items_no_text", "items_skip" }

\* C22 as claimed: each item gives the text of the first applicable rule, the
\* last rule taking the first present of the keys text, content, message; the
\* texts are joined with newline in item order; None when no item yields text.
C22_FirstPresentKeyDecides ==
    (outcome = "json" /\ body \in OutputDocs) =>
        result = OutputTextBy(ItemTextFirstPresent, DocOf(body).f["output"].l)

\* C22: each item gives the text of the first applicable rule (string item;
\* map of type "text" with content; map of type "message" with content), the
\* last rule taking the first of the keys text, content, message whose value
\* gives a non-empty text; the texts are joined with newline in item order and
\* the result is None exactly when no item yields text.
C22_FirstKeyWithTextDecides ==
    (outcome = "json" /\ body \in OutputDocs) =>
        LET items == DocOf(body).f["output"].l
        IN /\ result = OutputTextBy(ItemTextFirstWithText, items)
           /\ (result = None)
                 = (\A i \in 1..Len(items) : ~Truthy(ItemTextFirstWithText(items[i])))

C22_Witness ==
    /\ outcome = "json"
    /\ body = "items"
    /\ result = << "a", LF, "b", LF, "x", LF, "y" >>

\* How many newlines a sequence of bytes holds.
RECURSIVE NewlineCount(_)
NewlineCount(bytes) ==
    IF Len(bytes) = 0 THEN 0
    ELSE (IF Head(bytes) = NL THEN 1 ELSE 0) + NewlineCount(Tail(bytes))

\* C28: only lines ended by a newline are decoded: there are never more
\* decoded lines than newlines read, a last line the gateway left without its
\* newline is never decoded, and when the input is exhausted the result is
\* made of the decoded events alone, the carry buffer adding nothing even when
\* it holds a complete Delta, Completed or Failed event.
C28_CarryNeverDecoded ==
    StreamHistoryKept =>
        /\ Len(decoded) <= NewlineCount(received)
        /\ closed => Len(decoded) < written
        /\ outcome = "stream_end" =>
              /\ events = EventsOf(decoded)
              /\ accumulated_text = AccAfter(events, Len(events))
              /\ result = StreamResult(final_response_text, accumulated_text)

C28_Witness ==
    /\ outcome = "stream_end"
    /\ closed
    /\ buffer = << DATA, OpenFailed, "m", CL >>
    /\ Len(decoded) = 1
    /\ result = << "a", "a" >>

\* C30: a `data: ` line whose payload is valid JSON but no object is not
\* skipped: it is the last line decoded, no event is parsed from it, and the
\* call ends with the generic error string, whatever text was accumulated; the
\* call ends that way for no other line.
C30_NonObjectEndsCall ==
    /\ \A i \in 1..Len(decoded) :
          (Loads(decoded[i]) /\ ~LoadsDict(decoded[i]))
             => /\ i = Len(decoded)
                /\ pc = "done" /\ outcome = "exception"
                /\ result = << "[x] error: ", "'int' object has no attribute 'get'" >>
                /\ events = EventsOf(SubSeq(decoded, 1, i - 1))
    /\ outcome = "exception" =>
          decoded # << >> /\ Loads(Last(decoded)) /\ ~LoadsDict(Last(decoded))

C30_Witness ==
    /\ outcome = "exception"
    /\ Len(decoded) = 2
    /\ accumulated_text = << "a", "a" >>
    /\ result = << "[x] error: ", NoGetAttribute >>

-----------------------------------------------------------------------------
(* A property of the manager's states, under StoreSpec. *)

\* C26: every entry of the manager is in OpenClaw mode, so for every id the
\* three observations agree: is_in_clawdbot_mode is true exactly when the id
\* has an entry, exactly when get_session_key is not None, exactly when
\* get_session_name is not None.
C26_ObservationsAgree ==
    /\ \A session_id \in DOMAIN sessions : sessions[session_id].mode = "clawdbot"
    /\ \A session_id \in SessionIds :
          /\ IsInClawdbotMode(sessions, session_id) = (session_id \in DOMAIN sessions)
          /\ IsInClawdbotMode(sessions, session_id)
                = (GetSessionKey(sessions, session_id) # None)
          /\ IsInClawdbotMode(sessions, session_id)
                = (GetSessionName(sessions, session_id) # None)

C26_Witness ==
    /\ last_op.name = "exit_clawdbot_mode"
    /\ last_op.id = GetSessionId(EvPrivate)
    /\ last_op.ret = TRUE
    /\ Observations(sessions, GetSessionId(EvPrivate)) = << FALSE, None, None >>
    /\ Observations(sessions, GetSessionId(EvGroup)) = << TRUE, << "k2" >>, << "work" >> >>

-----------------------------------------------------------------------------
(* Properties of the routing of messages, under BridgeSpec.  What a handler *)
(* does with a message is what Route gives for the manager's dict as the    *)
(* handler finds it, whichever other handlers are suspended in a call.      *)

\* The sender of the event is none of the configured administrators.
NotAnAdmin(event) == event.sender_id \notin admins_id /\ << "astrbot" >> \notin admins_id

\* The administrators' events, and the messages by the kind of their command.
AdminEvents == { event \in Events : ~NotAnAdmin(event) }
PlainMessages == { m \in HandlerMessages : ParseCommand(m).cmd_type = "none" }
SwitchMessages == { m \in HandlerMessages : ParseCommand(m).cmd_type = "switch" }
LocalMessages ==
    { m \in HandlerMessages : ParseCommand(m).cmd_type \in { "status", "config", "init" } }

\* What handle_message does with the message of the event in this state.
Handling(event, raw_message) == Route(sessions, share_with_webui, event, raw_message)

\* The calls of send_message that handling a message starts: at most one,
\* with the text and the key it passes.
Forwards(event, raw_message) ==
    LET r == Handling(event, raw_message)
    IN IF r.send THEN { << r.message, r.session_key >> } ELSE { }

\* C21 as claimed: in a session in OpenClaw mode every message of an
\* administrator that is no command is stopped and forwarded exactly once with
\* the key stored for the session id; in a session that is not, such a message
\* is neither stopped nor forwarded.
C21_RoutingByMode ==
    \A event \in AdminEvents, raw_message \in PlainMessages :
        LET session_id == GetSessionId(event)
            r == Handling(event, raw_message)
        IN /\ r.sessions = sessions
           /\ IF session_id \in DOMAIN sessions
              THEN /\ r.intercepted
                   /\ Forwards(event, raw_message)
                         = { << raw_message, sessions[session_id].session_key >> }
              ELSE /\ ~r.intercepted
                   /\ Forwards(event, raw_message) = { }

\* C21: in a session in OpenClaw mode every message of an administrator that
\* is no command is stopped; when its text is not empty it is forwarded, by
\* one call of send_message, with the key stored for the session id, and when
\* its text is empty it is answered with the validation message without any
\* call; a call that returns starts no other.  In a session that is not in
\* OpenClaw mode such a message is neither stopped nor forwarded.
C21_RoutingByModeNonEmpty ==
    /\ \A event \in AdminEvents, raw_message \in PlainMessages :
          LET session_id == GetSessionId(event)
              r == Handling(event, raw_message)
          IN /\ r.sessions = sessions
             /\ IF session_id \in DOMAIN sessions
                THEN /\ r.intercepted
                     /\ IF raw_message # << >>
                        THEN Forwards(event, raw_message)
                                = { << raw_message, sessions[session_id].session_key >> }
                        ELSE /\ Forwards(event, raw_message) = { }
                             /\ r.reply = << "[x] message must not be empty" >>
                ELSE /\ ~r.intercepted
                     /\ Forwards(event, raw_message) = { }
    /\ \A t \in Tasks : tasks[t].pc \in { "idle", "sending" }
    /\ last_op.name = "send_message" => \E t \in Tasks : tasks[t].pc = "idle"

C21_Witness ==
    /\ last_op.name = "handle_message"
    /\ last_op.id = GetSessionId(EvGroup)
    /\ last_op.ret = TRUE
    /\ GetSessionName(sessions, GetSessionId(EvGroup)) = << "work" >>
    /\ \E t \in Tasks :
          tasks[t] = Sending(GetSessionId(EvGroup), << "hello" >>,
                             sessions[GetSessionId(EvGroup)].session_key)
    /\ \E t \in Tasks : tasks[t].pc = "idle"

C24_LocalCommandsAnswered ==
    \A event \in AdminEvents, raw_message \in LocalMessages :
        /\ Handling(event, raw_message).intercepted
        /\ Handling(event, raw_message).reply # None
        /\ Handling(event, raw_message).sessions = sessions
        /\ Forwards(event, raw_message) = { }

\* Who sent the message where: platform, user, and group or private chat.
Identity(event) == << event.platform, event.user_id, event.group_id >>

\* C25: every user has an independent session in every group and in private
\* chat: events of different identities have different session ids, and what
\* a handler does for the message of one identity never changes what the
\* manager shows for another identity.
C25_IdentitiesIndependent ==
    \A event \in Events, other \in Events, raw_message \in HandlerMessages :
        Identity(other) # Identity(event)
           => /\ GetSessionId(other) # GetSessionId(event)
              /\ Observations(Handling(event, raw_message).sessions, GetSessionId(other))
                    = Observations(sessions, GetSessionId(other))

\* The key the key-construction rule yields for the session name of an event.
KeyRule(event, name) ==
    IF share_with_webui
    THEN << "agent", ":" >> \o agent_id \o << ":" >> \o name
    ELSE << "astrbot", Sep >> \o event.platform \o << Sep >> \o event.user_id \o << Sep >>
            \o (IF event.group_id # << >> THEN event.group_id ELSE << "private" >>)
            \o << Sep >> \o name

\* C27: the key of every entry is the key the rule yields for the entry's
\* name: per user, or agent:{agent id}:{name} when shared with the WebUI.
C27_KeyFollowsName ==
    \A event \in Events :
        GetSessionId(event) \in DOMAIN sessions
           => sessions[GetSessionId(event)].session_key
                 = KeyRule(event, sessions[GetSessionId(event)].session_name)

\* C29: handling a switch command of an administrator leaves the session in
\* OpenClaw mode under the configured default session with the key built from
\* it, whatever the entry was, and touches no other entry; the call for an
\* attached message is started with that key after the entry is written, and
\* the return of a call, whatever it returns, changes no entry.
C29_SwitchEntersDefault ==
    /\ \A event \in AdminEvents, raw_message \in SwitchMessages :
          LET session_id == GetSessionId(event)
              key == KeyRule(event, << "main" >>)
              r == Handling(event, raw_message)
          IN /\ session_id \in DOMAIN r.sessions
             /\ r.sessions[session_id] =
                    [mode |-> "clawdbot", session_key |-> key, session_name |-> << "main" >>]
             /\ SameElsewhere(sessions, r.sessions, session_id)
             /\ Forwards(event, raw_message)
                   = IF Len(raw_message) > 1 THEN { << Tail(raw_message), key >> } ELSE { }
    /\ \A t \in Tasks, response \in Responses :
          tasks[t].pc = "sending"
             => AfterSend(sessions, tasks[t].session_id, response) = sessions

C29_Witness ==
    /\ last_op.name = "handle_message"
    /\ GetSessionName(sessions, GetSessionId(EvGroup)) = << "main" >>
    /\ \E t1, t2 \in Tasks :
          /\ tasks[t1] = Sending(GetSessionId(EvGroup), << "hello" >>,
                                 GetGatewaySessionKey(EvGroup, << "work" >>))
          /\ tasks[t2] = Sending(GetSessionId(EvGroup), << "hello" >>,
                                 GetGatewaySessionKey(EvGroup, << "main" >>))

====
